---------------------------- MODULE Spec2Model ----------------------------
(***************************************************************************)
(* Icon pipeline of windows-98-icons: the run merger (combine_runs.py),    *)
(* the database assembler (build_db.py), the embedding client              *)
(* (embed_single_process.py, embed_db_missing.py, embed_failed_icons.py)   *)
(* and the batch orchestrator (process_icons.py, retry_errors.py).         *)
(* Each component has its own variables and its own specification; a       *)
(* specification leaves the other components' variables at their initial   *)
(* values.                                                                 *)
(***************************************************************************)
EXTENDS Integers, Sequences, FiniteSets, TLC

VARIABLES
    \* combine_runs.py
    input_files,      \* the input files' processed_icons lists, in argv order
    combined,         \* the combined file written by combine_runs
    merge_pc,
    \* build_db.py
    input_icons,      \* processed_icons of the input file
    icons,            \* table icons: sequence of rows, in rowid order
    icon_embeddings,  \* table icon_embeddings: set of [icon_id, embedding]
    icons_fts,        \* table icons_fts: set of rowids
    metadata,         \* table metadata: key -> value, <<>> before it is created
    build,            \* build()'s position and insert_icons' locals
    \* EmbeddingServer of embed_single_process.py, embed_db_missing.py and
    \* embed_failed_icons.py
    script,           \* which of the three scripts runs
    callers,          \* "loop": main's for loop; "concurrent": independent callers
    caller,           \* per request id: generate_embedding's position, its result
                      \* and (history) the response it returned on
    stdin,            \* the worker's input: complete lines, and unterminated text
    worker,           \* the node process: alive, requests it is working on
    stdout,           \* lines the worker wrote that _read_responses has not read
    response_queue,   \* self.response_queue
    arrived,          \* history: ids of the responses put on response_queue
    discarded,        \* history: <<c, id>> for a response id that caller c dropped
    \* IconProcessor (process_icons.py) and RetryProcessor (retry_errors.py)
    orch,             \* the run: script, input size, position, counters
    task,             \* per item: process_icon's position and result
    finished,         \* the current batch's items in the order they completed
    vision_semaphore, \* self.vision_semaphore: free slots, queue of waiters
    requests_per_minute,  \* self.requests_per_minute
    clock,            \* time.time(): what the next reading of the time gives
    processed_data,   \* self.processed_data: names of the processed icons
    error_data,       \* self.error_data: [item, step]
    output_file,      \* icons_processed.json / icons_processed_retry.json on disk
    error_file,       \* icons_errors.json / icons_errors_retry.json on disk
    \* main() of embed_single_process.py, embed_db_missing.py and
    \* embed_failed_icons.py
    embed_run,        \* the run: script, number of items, position, counters
    temp_dir,         \* the directory of tempfile.mkdtemp() exists
    process,          \* server.process: "none", "running" or "terminated"
    embedded,         \* per item: the embedding the run holds for it, in
                      \* memory or in its open transaction
    stored            \* per item: the embedding on disk (file or database)

mergeVars == <<input_files, combined, merge_pc>>
buildVars == <<input_icons, icons, icon_embeddings, icons_fts, metadata, build>>
clientVars == <<script, callers, caller, stdin, worker, stdout, response_queue,
                arrived, discarded>>
orchVars == <<orch, task, finished, vision_semaphore, requests_per_minute, clock, processed_data,
              error_data, output_file, error_file>>
runVars == <<embed_run, temp_dir, process, embedded, stored>>
vars == <<mergeVars, buildVars, clientVars, orchVars, runVars>>

(***************************************************************************)
(* Bounds of the model.                                                    *)
(***************************************************************************)
\* Records loaded from all input files of one merge, in total.
MaxLoaded == 3
\* Records in the input of one database build.
MaxIcons == 3
\* EMBEDDING_DIMENSIONS of the build (768 unless the environment sets it),
\* scaled down.
EmbeddingDimensions == 2
\* Requests made of one EmbeddingServer (request ids 1..MaxRequests).
MaxRequests == 3
\* Items in the input of one orchestrator run.
MaxItems == 5
\* batch_size of IconProcessor (20) and of RetryProcessor (10), scaled down.
BatchSize == 4
RetryBatchSize == 2
\* asyncio.Semaphore(15), scaled down.
VisionSlots == 2
\* check_rate_limit's threshold (800 requests), scaled down.
RateThreshold == 0
\* Calls of save_processed_data on the same results.
MaxSaves == 2
\* The lengths written into the code, on the scale on which 768 is 4: the
\* dummy embedding of quick_fix_failed.py ([0.0] * 768) and the test vector
\* of verify_database ([0.0] * 1536).
DummyEmbeddingLength == 4
TestEmbeddingLength == 8

(***************************************************************************)
(* Values.  A name is a positive number and 0 stands for a missing or      *)
(* empty name; a description likewise.  An embedding field is missing,     *)
(* null or a list of numbers.                                              *)
(***************************************************************************)
NoEmbedding == [kind |-> "null", vec |-> <<>>]
MissingEmbedding == [kind |-> "missing", vec |-> <<>>]
ListEmbedding(v) == [kind |-> "list", vec |-> v]
Vector(n) == [k \in 1..n |-> 1]
\* An element of a list that is no number (null, a string) is written 0.
NotANumber == 0
IsNumber(x) == x # NotANumber

\* Python truthiness of icon.get('embedding'): None and [] are falsy.
Truthy(e) == e.kind = "list" /\ Len(e.vec) > 0

SeqsUpTo(S, n) == UNION {[1..k -> S] : k \in 0..n}

RECURSIVE Concat(_)
Concat(ss) == IF ss = <<>> THEN <<>> ELSE Head(ss) \o Concat(Tail(ss))

(***************************************************************************)
(* combine_runs.py                                                         *)
(***************************************************************************)
MergeIcon(n, d, e, p) ==
    [name |-> n, description |-> d, embedding |-> e, local_path |-> p]

\* Records an input file can hold: complete ones, and ones with one field
\* missing or empty (a record whose embedding failed has embedding null),
\* or with an embedding that is a list of something else than numbers.
MergeIcons ==
    {MergeIcon(n, d, ListEmbedding(Vector(1)), 1) : n \in 1..2, d \in 1..2}
    \cup {MergeIcon(0, 1, ListEmbedding(Vector(1)), 1)}
    \cup {MergeIcon(n, 0, ListEmbedding(Vector(1)), 1) : n \in 1..2}
    \cup {MergeIcon(n, 1, e, 1) :
            n \in 1..2, e \in {NoEmbedding, MissingEmbedding, ListEmbedding(<<>>),
                                ListEmbedding(<<NotANumber>>)}}
    \cup {MergeIcon(n, 1, ListEmbedding(Vector(1)), 0) : n \in 1..2}

validate_icon_data(icon) ==
    /\ icon.name # 0
    /\ icon.description # 0
    /\ Truthy(icon.embedding)
    /\ icon.local_path # 0

RECURSIVE DedupFrom(_, _, _)
DedupFrom(all_icons, k, seen_names) ==
    IF k > Len(all_icons) THEN <<>>
    ELSE LET icon == all_icons[k]
         IN IF icon.name # 0 /\ icon.name \notin seen_names
            THEN <<icon>> \o DedupFrom(all_icons, k + 1, seen_names \cup {icon.name})
            ELSE DedupFrom(all_icons, k + 1, seen_names)

\* the first-occurrence test of deduplicate_icons, with no seen_names at all
DedupKeepAll(all_icons) == SelectSeq(all_icons, LAMBDA icon : icon.name # 0)

\* the two passes in the other order: the first valid record of a name is
\* kept
DedupValidFirst(all_icons) == DedupFrom(SelectSeq(all_icons, validate_icon_data), 1, {})

deduplicate_icons(all_icons) == DedupFrom(all_icons, 1, {})

RECURSIVE InsertByName(_, _)
\* icon put after the last record whose name is <= its name (a stable sort)
InsertByName(sorted, icon) ==
    IF sorted = <<>> THEN <<icon>>
    ELSE IF Head(sorted).name <= icon.name
         THEN <<Head(sorted)>> \o InsertByName(Tail(sorted), icon)
         ELSE <<icon>> \o sorted

\* the valid records left in the order of the input files
LoadedOrder(s) == s

RECURSIVE SortByName(_)
SortByName(s) ==
    IF s = <<>> THEN <<>>
    ELSE InsertByName(SortByName(SubSeq(s, 1, Len(s) - 1)), s[Len(s)])

NoFile == [written |-> FALSE, processed_icons |-> <<>>, total_count |-> 0,
           total_loaded |-> 0, after_dedup |-> 0, after_validation |-> 0,
           duplicates_removed |-> 0, invalid_removed |-> 0]

\* combine_runs on the loaded files: "" is returned, and nothing written,
\* when nothing was loaded or nothing is valid.
CombineResult(files) ==
    LET all_icons == Concat(files)
        deduplicated_icons == deduplicate_icons(all_icons)
        valid_icons == SelectSeq(deduplicated_icons, validate_icon_data)
    IN IF all_icons = <<>> \/ valid_icons = <<>> THEN NoFile
       ELSE [written |-> TRUE,
             processed_icons |-> SortByName(valid_icons),
             total_count |-> Len(valid_icons),
             total_loaded |-> Len(all_icons),
             after_dedup |-> Len(deduplicated_icons),
             after_validation |-> Len(valid_icons),
             duplicates_removed |-> Len(all_icons) - Len(deduplicated_icons),
             invalid_removed |-> Len(deduplicated_icons) - Len(valid_icons)]

InitMergeVars ==
    /\ \E loaded \in SeqsUpTo(MergeIcons, MaxLoaded) :
          \E k \in 0..Len(loaded) :
             input_files = <<SubSeq(loaded, 1, k), SubSeq(loaded, k + 1, Len(loaded))>>
    /\ combined = NoFile
    /\ merge_pc = "start"

IdleMergeVars ==
    /\ input_files = <<>>
    /\ combined = NoFile
    /\ merge_pc = "idle"

combine_runs ==
    /\ merge_pc = "start"
    /\ combined' = CombineResult(input_files)
    /\ merge_pc' = "done"
    /\ UNCHANGED <<input_files, buildVars, clientVars, orchVars, runVars>>

(***************************************************************************)
(* build_db.py                                                             *)
(***************************************************************************)
BuildIcon(n, e) == [name |-> n, embedding |-> e]

\* Records of the input file: the name is a string (1, 2) or null (0); the
\* embedding is missing, null, a list of numbers of any length around the
\* configured one, or a list of the configured length of something else
\* than numbers.
BuildIcons ==
    {BuildIcon(n, e) :
        n \in 0..2,
        e \in {NoEmbedding, MissingEmbedding}
              \cup {ListEmbedding(Vector(len)) : len \in 0..(EmbeddingDimensions + 1)}
              \cup {ListEmbedding([k \in 1..EmbeddingDimensions |-> NotANumber])}}

\* schema: create_database has created the tables; index_width: the width
\* of the vector index; vector_search: the outcome of verify_database's
\* test query; db_file: the file at db_path, absent, the artifact of an
\* earlier build ("previous"), removed by the constructor, or created by
\* this build ("new")
BuildIdle == [pc |-> "idle", next |-> 1, inserted_count |-> 0, failed_count |-> 0,
              schema |-> FALSE, index_width |-> 0, vector_search |-> "none",
              db_file |-> "absent"]

IdleBuildVars ==
    /\ input_icons = <<>>
    /\ icons = <<>>
    /\ icon_embeddings = {}
    /\ icons_fts = {}
    /\ metadata = <<>>
    /\ build = BuildIdle

InitBuildVars ==
    /\ input_icons \in SeqsUpTo(BuildIcons, MaxIcons)
    /\ icons = <<>>
    /\ icon_embeddings = {}
    /\ icons_fts = {}
    /\ metadata = <<>>
    /\ \E f \in {"absent", "previous"} :
          build = [BuildIdle EXCEPT !.pc = "new", !.db_file = f]

\* a constructor that leaves the file at db_path alone
Kept(f) == f

\* __init__: if self.db_path.exists(): self.db_path.unlink()
Unlinked(f) == IF f = "previous" THEN "removed" ELSE f

\* DatabaseBuilder(): the constructor, before build() loads the input
builder_init ==
    /\ build.pc = "new"
    /\ build' = [build EXCEPT !.pc = "start", !.db_file = Unlinked(build.db_file)]
    /\ UNCHANGED <<input_icons, icons, icon_embeddings, icons_fts, metadata,
                   mergeVars, clientVars, orchVars, runVars>>

\* the gate with the length test dropped: any non-empty list passes
EmbeddingAcceptedAnyLength(embedding) == Truthy(embedding)

\* embedding and len(embedding) == self.embedding_dimensions
EmbeddingAccepted(embedding) ==
    Truthy(embedding) /\ Len(embedding.vec) = EmbeddingDimensions

\* INSERT INTO icons raises: name TEXT NOT NULL UNIQUE
InsertRaises(icon) ==
    \/ icon.name = 0
    \/ \E r \in DOMAIN icons : icons[r].name = icon.name

\* the test of build() left out: any input goes on to create_database
AnyRecords == TRUE

\* not (total_icons == 0)
HasRecords == Len(input_icons) # 0

\* INSERT INTO icon_embeddings raises: the text given for the vector is no
\* JSON list of numbers
VectorInsertRaises(embedding) ==
    \E k \in DOMAIN embedding.vec : ~IsNumber(embedding.vec[k])

\* the vector query with a test vector of this length: vec0 refuses a
\* query vector whose length is not the width of the index
VectorSearch(width, length) == IF length = width THEN "ok" ELSE "error"

\* failed_names of quick_fix_failed.py
FailedNames == {1}

\* an UPDATE without the test of the embedding: every row is taken
AnyRow(row) == TRUE

\* WHERE embedding IS NULL OR embedding = ''
NeedsEmbedding(row) == ~Truthy(row.embedding)

\* the scripts that write the built database have run or not
Built == build.pc \in {"done", "added", "backfilled", "fixed"}

\* build(): zero records, return before create_database
build_abort ==
    /\ build.pc = "start"
    /\ Len(input_icons) = 0
    /\ build' = [build EXCEPT !.pc = "aborted"]
    /\ UNCHANGED <<input_icons, icons, icon_embeddings, icons_fts, metadata, mergeVars, clientVars, orchVars, runVars>>

\* build(): create_database, then insert_icons starts
create_database ==
    /\ build.pc = "start"
    /\ HasRecords
    /\ icons' = <<>>
    /\ icon_embeddings' = {}
    /\ icons_fts' = {}
    /\ build' = [build EXCEPT !.pc = "insert", !.schema = TRUE,
                               !.index_width = EmbeddingDimensions,
                               !.db_file = "new"]
    /\ UNCHANGED <<input_icons, metadata, mergeVars, clientVars, orchVars, runVars>>

\* an except clause that goes on to the next record without counting
FailureSkipped(b) == [b EXCEPT !.next = @ + 1]

\* the except clause of insert_icons: failed_count += 1, and the loop goes
\* on with the next record
InsertFailed(b) == [b EXCEPT !.next = @ + 1, !.failed_count = @ + 1]

\* one pass of insert_icons' loop body, the except clause included
insert_icon ==
    /\ build.pc = "insert"
    /\ build.next <= Len(input_icons)
    /\ LET icon == input_icons[build.next]
           icon_id == Len(icons) + 1
       IN IF InsertRaises(icon)
          THEN /\ build' = InsertFailed(build)
               /\ UNCHANGED <<icons, icon_embeddings, icons_fts>>
          ELSE IF EmbeddingAccepted(icon.embedding) /\ VectorInsertRaises(icon.embedding)
          THEN \* the row of icons is in, and the exception skips the rest
               /\ icons' = Append(icons,
                      [id |-> icon_id, name |-> icon.name, embedding |-> icon.embedding])
               /\ build' = InsertFailed(build)
               /\ UNCHANGED <<icon_embeddings, icons_fts>>
          ELSE /\ icons' = Append(icons,
                      [id |-> icon_id, name |-> icon.name,
                       embedding |-> IF EmbeddingAccepted(icon.embedding)
                                     THEN icon.embedding ELSE NoEmbedding])
               /\ icon_embeddings' =
                      IF EmbeddingAccepted(icon.embedding)
                      THEN icon_embeddings \cup
                              {[icon_id |-> icon_id, embedding |-> icon.embedding.vec]}
                      ELSE icon_embeddings
               /\ icons_fts' = icons_fts \cup {icon_id}
               /\ build' = [build EXCEPT !.next = @ + 1, !.inserted_count = @ + 1]
    /\ UNCHANGED <<input_icons, metadata, mergeVars, clientVars, orchVars, runVars>>

\* insert_icons' commit, then create_metadata_table (optimize_database
\* changes no table)
create_metadata_table ==
    /\ build.pc = "insert"
    /\ build.next > Len(input_icons)
    /\ metadata' = [total_icons |-> Len(input_icons)]
    /\ build' = [build EXCEPT !.pc = "verify"]
    /\ UNCHANGED <<input_icons, icons, icon_embeddings, icons_fts, mergeVars, clientVars, orchVars, runVars>>

\* verify_database: the counts, and the test query on the vector index,
\* whose exception is caught and printed
verify_database ==
    /\ build.pc = "verify"
    /\ build' = [build EXCEPT
                    !.pc = "done",
                    !.vector_search = VectorSearch(build.index_width, TestEmbeddingLength)]
    /\ UNCHANGED <<input_icons, icons, icon_embeddings, icons_fts, metadata, mergeVars, clientVars, orchVars, runVars>>

\* quick_fix_failed.py on the built database: the dummy embedding for the
\* rows of failed_names that have none
quick_fix_failed ==
    /\ build.pc \in {"done", "added", "backfilled"}
    /\ icons' = [r \in DOMAIN icons |->
                   IF icons[r].name \in FailedNames /\ NeedsEmbedding(icons[r])
                   THEN [icons[r] EXCEPT
                           !.embedding = ListEmbedding(Vector(DummyEmbeddingLength))]
                   ELSE icons[r]]
    /\ build' = [build EXCEPT !.pc = "fixed"]
    /\ UNCHANGED <<input_icons, icon_embeddings, icons_fts, metadata, mergeVars, clientVars, orchVars, runVars>>

(***************************************************************************)
(* EmbeddingServer: embed_single_process.py, embed_db_missing.py,          *)
(* embed_failed_icons.py                                                   *)
(***************************************************************************)
Scripts == {"embed_single_process", "embed_db_missing", "embed_failed_icons"}
RequestIds == 1..MaxRequests

\* generate_embedding's return value: None, or the embedding
None == [none |-> TRUE, embedding |-> <<>>]
Returned(e) == [none |-> FALSE, embedding |-> e]

\* the text of request id, and the embedding the model gives a text
TextOf(id) == id
EmbeddingOf(text) == <<text>>

\* a line of the worker's output: a console.log line, or a JSON response
LogLine == [json |-> FALSE, id |-> 0, error |-> FALSE, embedding |-> <<>>]
Response(id, failed) ==
    [json |-> TRUE, id |-> id, error |-> failed,
     embedding |-> IF failed THEN <<>> ELSE EmbeddingOf(TextOf(id))]

\* request + '\n' ends the line; embed_db_missing.py and
\* embed_failed_icons.py write request + '\\n', a backslash and an n, and
\* the worker's readline never sees the end of a line
RequestTerminated(s) == s = "embed_single_process"

\* the wait of generate_embedding is bounded in embed_db_missing.py only
\* (timeout = 30, get(timeout=1)); the other two call response_queue.get()
HasTimeout(s) == s = "embed_db_missing"

IdleClientVars ==
    /\ script = "none"
    /\ callers = "none"
    /\ caller = <<>>
    /\ stdin = [lines |-> <<>>, partial |-> <<>>]
    /\ worker = [alive |-> FALSE, inflight |-> {}]
    /\ stdout = <<>>
    /\ response_queue = <<>>
    /\ arrived = {}
    /\ discarded = {}

\* after EmbeddingServer.start()
InitClientVars(mode) ==
    /\ script \in Scripts
    /\ callers = mode
    /\ caller = [id \in RequestIds |-> [pc |-> "idle", result |-> None, by |-> LogLine]]
    /\ stdin = [lines |-> <<>>, partial |-> <<>>]
    /\ worker = [alive |-> TRUE, inflight |-> {}]
    /\ stdout = <<>>
    /\ response_queue = <<>>
    /\ arrived = {}
    /\ discarded = {}

\* main's loop calls generate_embedding(i, ...) after call i-1 returned;
\* independent callers call it at any time
MayCall(id) ==
    /\ caller[id].pc = "idle"
    /\ callers = "loop" => \A j \in 1..(id - 1) : caller[j].pc = "returned"

\* generate_embedding: write the request and flush; a dead worker's pipe
\* raises BrokenPipeError
send_request(id) ==
    /\ MayCall(id)
    /\ IF worker.alive
       THEN /\ stdin' = IF RequestTerminated(script)
                        THEN [stdin EXCEPT !.lines = Append(@, id)]
                        ELSE [stdin EXCEPT !.partial = Append(@, id)]
            /\ caller' = [caller EXCEPT ![id].pc = "waiting"]
       ELSE /\ caller' = [caller EXCEPT ![id].pc = "raised"]
            /\ UNCHANGED stdin
    /\ UNCHANGED <<script, callers, worker, stdout, response_queue, arrived, discarded,
                   mergeVars, buildVars, orchVars, runVars>>

\* the worker's rl.on('line'): a complete line starts an asynchronous
\* handler, which logs "Processing ID"
worker_line ==
    /\ worker.alive
    /\ stdin.lines # <<>>
    /\ worker' = [worker EXCEPT !.inflight = @ \cup {Head(stdin.lines)}]
    /\ stdin' = [stdin EXCEPT !.lines = Tail(@)]
    /\ stdout' = Append(stdout, LogLine)
    /\ UNCHANGED <<script, callers, caller, response_queue, arrived, discarded,
                   mergeVars, buildVars, orchVars, runVars>>

\* a handler finishes, in any order: {id, embedding} or {id, error: true}
worker_respond(id, failed) ==
    /\ worker.alive
    /\ id \in worker.inflight
    /\ worker' = [worker EXCEPT !.inflight = @ \ {id}]
    /\ stdout' = Append(stdout, Response(id, failed))
    /\ UNCHANGED <<script, callers, caller, stdin, response_queue, arrived, discarded,
                   mergeVars, buildVars, orchVars, runVars>>

\* the worker process dies: what it had not written is lost
worker_exit ==
    /\ worker.alive
    /\ worker' = [alive |-> FALSE, inflight |-> {}]
    /\ UNCHANGED <<script, callers, caller, stdin, stdout, response_queue, arrived,
                   discarded, mergeVars, buildVars, orchVars, runVars>>

\* _read_responses: one line; a JSON line with an id goes on the queue
read_responses ==
    /\ stdout # <<>>
    /\ stdout' = Tail(stdout)
    /\ IF Head(stdout).json
       THEN /\ response_queue' = Append(response_queue, Head(stdout))
            /\ arrived' = arrived \cup {Head(stdout).id}
       ELSE UNCHANGED <<response_queue, arrived>>
    /\ UNCHANGED <<script, callers, caller, stdin, worker, discarded, mergeVars, buildVars, orchVars, runVars>>

\* the test of the wait loop with the id ignored: the next response is taken
MatchesAnyResponse(response, request_id) == TRUE

\* response['id'] == request_id
MatchesRequest(response, request_id) == response.id = request_id

\* response.get('embedding') if 'error' not in response else None
ResultOf(response) ==
    IF response.error THEN None ELSE Returned(response.embedding)

\* one pass of generate_embedding's wait loop with a response on the queue
get_response(id) ==
    /\ caller[id].pc = "waiting"
    /\ response_queue # <<>>
    /\ response_queue' = Tail(response_queue)
    /\ IF MatchesRequest(Head(response_queue), id)
       THEN /\ caller' = [caller EXCEPT ![id] =
                             [pc |-> "returned", result |-> ResultOf(Head(response_queue)),
                              by |-> Head(response_queue)]]
            /\ UNCHANGED discarded
       ELSE /\ discarded' = discarded \cup {<<id, Head(response_queue).id>>}
            /\ UNCHANGED caller
    /\ UNCHANGED <<script, callers, stdin, worker, stdout, arrived, mergeVars, buildVars, orchVars, runVars>>

\* embed_db_missing.py: the 30 seconds are over, return None
wait_timeout(id) ==
    /\ caller[id].pc = "waiting"
    /\ HasTimeout(script)
    /\ caller' = [caller EXCEPT ![id] = [pc |-> "returned", result |-> None, by |-> LogLine]]
    /\ UNCHANGED <<script, callers, stdin, worker, stdout, response_queue, arrived,
                   discarded, mergeVars, buildVars, orchVars, runVars>>

(***************************************************************************)
(* IconProcessor (process_icons.py) and RetryProcessor (retry_errors.py)   *)
(***************************************************************************)
Runs == {"main", "retry"}

\* RetryProcessor.__init__ passes batch_size=10 to IconProcessor.__init__,
\* whose default is 20
BatchSizeOf(run) == IF run = "main" THEN BatchSize ELSE RetryBatchSize

Min(a, b) == IF a <= b THEN a ELSE b

\* a slice that starts one item early: successful_icons[i - 1:i + batch_size]
BatchFromLastItem(o) ==
    (IF o.i = 0 THEN 1 ELSE o.i)..Min(o.i + BatchSizeOf(o.run), o.total)

\* the items of the batch at offset i: successful_icons[i:i + batch_size]
BatchOf(o) == (o.i + 1)..Min(o.i + BatchSizeOf(o.run), o.total)
\* the same, as the list it is
RECURSIVE Ascending(_, _)
Ascending(from, to) == IF from > to THEN <<>> ELSE <<from>> \o Ascending(from + 1, to)
BatchList(o) == Ascending(o.i + 1, Min(o.i + BatchSizeOf(o.run), o.total))

\* the name of item k of the input
NameOf(k) == k

NoTask == [pc |-> "none", result |-> "pending"]
\* the files' fields that depend on the run (the model names and the retry
\* run's two marks are the same in every write of a run)
NoOutput == [state |-> "absent", processed_icons |-> <<>>, total_count |-> 0,
             timestamp |-> 0]
NoErrors == [state |-> "absent", error_icons |-> <<>>, total_errors |-> 0,
             timestamp |-> 0]

IdleOrchVars ==
    /\ orch = [run |-> "none", total |-> 0, pc |-> "idle", i |-> 0,
               processed_count |-> 0, failed_count |-> 0, writes |-> 0, saved |-> <<>>,
                     first_output |-> NoOutput, save_failed |-> FALSE,
                     admitted |-> 0, stale |-> {}]
    /\ task = <<>>
    /\ finished = <<>>
    /\ vision_semaphore = [value |-> 0, waiters |-> <<>>]
    /\ requests_per_minute = 0
    /\ clock = 0
    /\ processed_data = <<>>
    /\ error_data = <<>>
    /\ output_file = NoOutput
    /\ error_file = NoErrors

\* after IconProcessor.__init__ / RetryProcessor.__init__, with the input
\* (metadata's successful list, or the error file's error_icons) loaded
InitOrchVars ==
    /\ \E run \in Runs, total \in 0..MaxItems :
          /\ orch = [run |-> run, total |-> total, pc |-> "start", i |-> 0,
                     processed_count |-> 0, failed_count |-> 0, writes |-> 0, saved |-> <<>>,
                     first_output |-> NoOutput, save_failed |-> FALSE,
                     admitted |-> 0, stale |-> {}]
          /\ task = [k \in 1..total |-> NoTask]
    /\ finished = <<>>
    /\ vision_semaphore = [value |-> VisionSlots, waiters |-> <<>>]
    /\ requests_per_minute = 0
    /\ clock = 0
    /\ processed_data = <<>>
    /\ error_data = <<>>
    /\ output_file = NoOutput
    /\ error_file = NoErrors

\* the client call of generate_description is synchronous: while a task is
\* in it the event loop runs nothing else
LoopBusy == \E k \in DOMAIN task : task[k].pc = "in_call"

\* tasks are started in the order gather was given them
NextToStart(k) ==
    /\ task[k].pc = "created"
    /\ \A j \in BatchOf(orch) : j < k => task[j].pc # "created"

\* process_all_icons / retry_failed_icons: nothing to do
no_icons ==
    /\ UNCHANGED clock
    /\ orch.pc = "start"
    /\ orch.total = 0
    /\ orch' = [orch EXCEPT !.pc = "done"]
    /\ UNCHANGED <<task, finished, vision_semaphore, requests_per_minute, processed_data,
                   error_data, output_file, error_file, mergeVars, buildVars, clientVars, runVars>>

\* the batch's results are collected, its checkpoint written or not
BatchCollected == orch.pc \in {"save_open", "pause"}

\* save_processed_data() has returned and there is a next batch: the pause
\* before it
BatchSaved == orch.pc = "pause"

\* the head of the for loop: the batch's coroutines are created and
\* gathered (the first batch, or the next one after the pause)
start_batch ==
    /\ UNCHANGED clock
    /\ \/ orch.pc = "start" /\ orch.total > 0 /\ orch' = [orch EXCEPT !.pc = "gather"]
       \/ BatchSaved
          /\ orch' = [orch EXCEPT !.pc = "gather", !.i = @ + BatchSizeOf(orch.run)]
    /\ task' = [k \in DOMAIN task |->
                  IF k \in BatchOf(orch') THEN [NoTask EXCEPT !.pc = "created"]
                  ELSE task[k]]
    /\ finished' = <<>>
    /\ UNCHANGED <<vision_semaphore, requests_per_minute, processed_data, error_data,
                   output_file, error_file, mergeVars, buildVars, clientVars, runVars>>

\* Semaphore.acquire without the test: a slot is always handed out
SlotAlwaysFree == TRUE

\* not Semaphore.locked(): a slot is free and nobody waits for one
SlotFree == vision_semaphore.value > 0 /\ vision_semaphore.waiters = <<>>

\* what check_rate_limit finds when it reads the time: the window has
\* elapsed (current_time - minute_start > 60), it ends this instant
\* (wait_time is 0), or it is open (wait_time > 0)
Windows == {"elapsed", "ending", "open"}

\* check_rate_limit: "Reset counter every minute"
RateReset(rpm, window) == IF window = "elapsed" THEN 0 ELSE rpm

\* check_rate_limit: "If we're approaching limits, wait"
MustSleep(rpm, window) == rpm > RateThreshold /\ window = "open"

\* check_rate_limit up to its sleep, or to its end and into the client call
TaskAfterRateLimit(k, window) ==
    IF MustSleep(RateReset(requests_per_minute, window), window)
    THEN [task[k] EXCEPT !.pc = "rate_sleep"]
    ELSE [task[k] EXCEPT !.pc = "in_call"]

RateAfterRateLimit(window) ==
    IF MustSleep(RateReset(requests_per_minute, window), window)
    THEN RateReset(requests_per_minute, window)
    ELSE RateReset(requests_per_minute, window) + 1

\* the tasks in the sleep of check_rate_limit
Sleepers == {j \in DOMAIN task : task[j].pc = "rate_sleep"}

\* History of the windows, kept for the claims and read by no action.
\* admitted: the calls admitted since the current 60-second window began,
\* a window beginning when the counter is reset after the window before it
\* has run its 60 seconds; stale: the sleepers whose window has been reset
\* by another task since they went to sleep.
\* A task comes through check_rate_limit without sleeping, or goes to sleep:
AdmittedAfterRateLimit(o, window) ==
    [o EXCEPT
       !.admitted = IF window = "elapsed" THEN 1
                    ELSE IF MustSleep(requests_per_minute, window) THEN @
                    ELSE @ + 1,
       !.stale = IF window = "elapsed" THEN @ \cup Sleepers ELSE @]

\* A task comes out of its sleep: the window it slept in has ended, unless
\* another task has reset it since; then the new window may have run its
\* 60 seconds too (a client call can take that long), or not.
AdmittedAfterSleep(o, k, window) ==
    [o EXCEPT
       !.admitted = IF k \notin o.stale \/ window = "elapsed" THEN 1 ELSE @ + 1,
       !.stale = (@ \cup Sleepers) \ {k}]

\* process_icon from its start: a failure before generate_description, or
\* into generate_description's "async with self.vision_semaphore"
task_start(k, fate, window) ==
    /\ UNCHANGED clock
    /\ orch.pc = "gather"
    /\ ~LoopBusy
    /\ NextToStart(k)
    /\ IF fate # "proceed"
       THEN /\ task' = [task EXCEPT ![k] = [pc |-> "done", result |-> "None"]]
            /\ error_data' = Append(error_data, [item |-> k, step |-> fate])
            /\ finished' = Append(finished, k)
            /\ UNCHANGED <<vision_semaphore, requests_per_minute>>
       ELSE IF SlotFree
       THEN /\ vision_semaphore' = [vision_semaphore EXCEPT !.value = @ - 1]
            /\ task' = [task EXCEPT ![k] = TaskAfterRateLimit(k, window)]
            /\ requests_per_minute' = RateAfterRateLimit(window)
            /\ orch' = AdmittedAfterRateLimit(orch, window)
            /\ UNCHANGED <<error_data, finished>>
       ELSE /\ vision_semaphore' = [vision_semaphore EXCEPT !.waiters = Append(@, k)]
            /\ task' = [task EXCEPT ![k].pc = "sem_wait"]
            /\ UNCHANGED <<requests_per_minute, error_data, finished>>
    /\ (fate # "proceed" \/ ~SlotFree) => orch' = orch
    /\ UNCHANGED <<processed_data, output_file, error_file,
                   mergeVars, buildVars, clientVars, runVars>>

\* a waiter that release() handed a slot to goes on into check_rate_limit
task_granted(k, window) ==
    /\ UNCHANGED clock
    /\ orch.pc = "gather"
    /\ ~LoopBusy
    /\ task[k].pc = "sem_granted"
    /\ task' = [task EXCEPT ![k] = TaskAfterRateLimit(k, window)]
    /\ requests_per_minute' = RateAfterRateLimit(window)
    /\ orch' = AdmittedAfterRateLimit(orch, window)
    /\ UNCHANGED <<finished, vision_semaphore, processed_data, error_data,
                   output_file, error_file, mergeVars, buildVars, clientVars, runVars>>

\* the event loop runs the steps that are ready, the first step of every
\* task of the batch among them, before it looks at its timers
AllStarted == \A k \in BatchOf(orch) : task[k].pc # "created"

\* check_rate_limit after its sleep: the counter restarts, and this call counts
task_wake(k, window) ==
    /\ UNCHANGED clock
    /\ orch.pc = "gather"
    /\ ~LoopBusy
    /\ AllStarted
    /\ task[k].pc = "rate_sleep"
    /\ task' = [task EXCEPT ![k].pc = "in_call"]
    /\ requests_per_minute' = 1
    /\ orch' = AdmittedAfterSleep(orch, k, window)
    /\ UNCHANGED <<finished, vision_semaphore, processed_data, error_data,
                   output_file, error_file, mergeVars, buildVars, clientVars, runVars>>

\* the client call ends (a description, or an exception that
\* generate_description turns into None), the semaphore is released and
\* process_icon runs to its return; release() hands the slot to the first
\* waiter
task_return(k, outcome) ==
    /\ UNCHANGED clock
    /\ orch.pc = "gather"
    /\ task[k].pc = "in_call"
    /\ IF vision_semaphore.waiters # <<>>
       THEN /\ vision_semaphore' = [vision_semaphore EXCEPT !.waiters = Tail(@)]
            /\ task' = [task EXCEPT
                          ![k] = [pc |-> "done",
                                  result |-> IF outcome = "ok" THEN "icon" ELSE "None"],
                          ![Head(vision_semaphore.waiters)].pc = "sem_granted"]
       ELSE /\ vision_semaphore' = [vision_semaphore EXCEPT !.value = @ + 1]
            /\ task' = [task EXCEPT
                          ![k] = [pc |-> "done",
                                  result |-> IF outcome = "ok" THEN "icon" ELSE "None"]]
    /\ error_data' = IF outcome = "ok" THEN error_data
                     ELSE Append(error_data, [item |-> k, step |-> outcome])
    /\ finished' = Append(finished, k)
    /\ UNCHANGED <<orch, requests_per_minute, processed_data, output_file, error_file,
                   mergeVars, buildVars, clientVars, runVars>>

IsIcon(k) == task[k].result = "icon"

\* the results taken in the order the tasks completed
CompletionOrder(batch, done) == done

\* gather's result list is in the order of its arguments
ResultOrder(batch, done) == batch

\* the results kept up to the first failed one
SuccessfulUntilFailure(order) ==
    SubSeq(order, 1,
           Min(Len(order),
               CHOOSE n \in 0..Len(order) :
                   /\ \A j \in 1..n : IsIcon(order[j])
                   /\ n < Len(order) => ~IsIcon(order[n + 1])))

\* "elif result is not None: self.processed_data.append(result)"
Successful(order) == SelectSeq(order, IsIcon)

\* gather has returned: the "Process results" loop
\* a loop over batch_results that counts the exceptions only
ExceptionsInBatch(batch, new) == 0

\* the loop over batch_results: failed_count += 1 for every result that is
\* an exception or None
FailedInBatch(batch, new) == Cardinality(batch) - Len(new)

collect_results ==
    /\ UNCHANGED clock
    /\ orch.pc = "gather"
    /\ \A k \in BatchOf(orch) : task[k].pc = "done"
    /\ LET new == Successful(ResultOrder(BatchList(orch), finished))
       IN /\ processed_data' = processed_data \o [j \in DOMAIN new |-> NameOf(new[j])]
          /\ orch' = [orch EXCEPT
                        !.pc = "save_open",
                        !.processed_count = @ + Len(new),
                        !.failed_count = @ + FailedInBatch(BatchOf(orch), new)]
    /\ UNCHANGED <<task, finished, vision_semaphore, requests_per_minute, error_data,
                   output_file, error_file, mergeVars, buildVars, clientVars, runVars>>

\* save_processed_data: open(self.output_file, 'w') empties the file
save_open ==
    /\ UNCHANGED clock
    /\ orch.pc = "save_open"
    /\ output_file' = [NoOutput EXCEPT !.state = "truncated"]
    /\ orch' = [orch EXCEPT !.pc = "save_dump"]
    /\ UNCHANGED <<task, finished, vision_semaphore, requests_per_minute, processed_data,
                   error_data, error_file, mergeVars, buildVars, clientVars, runVars>>

\* save_processed_data: json.dump and the end of the with block
save_dump ==
    /\ orch.pc = "save_dump"
    /\ output_file' = [state |-> "complete", processed_icons |-> processed_data,
                       total_count |-> Len(processed_data), timestamp |-> clock]
    /\ clock' = clock + 1
    /\ orch' = [orch EXCEPT !.pc = "save_errors", !.writes = @ + 1,
                             !.saved = processed_data,
                             !.first_output = IF orch.writes = 0 THEN output_file'
                                              ELSE @]
    /\ UNCHANGED <<task, finished, vision_semaphore, requests_per_minute, processed_data,
                   error_data, error_file, mergeVars, buildVars, clientVars, runVars>>

\* save_processed_data: "Save errors if any occurred"; then the end of the
\* loop body: the pause before the next batch, or the end of the run
save_errors ==
    /\ orch.pc = "save_errors"
    /\ error_file' = IF error_data # <<>>
                     THEN [state |-> "complete", error_icons |-> error_data,
                           total_errors |-> Len(error_data), timestamp |-> clock]
                     ELSE error_file
    /\ clock' = IF error_data # <<>> THEN clock + 1 ELSE clock
    /\ orch' = [orch EXCEPT !.pc = IF orch.i + BatchSizeOf(orch.run) < orch.total
                                   THEN "pause" ELSE "done"]
    /\ UNCHANGED <<task, finished, vision_semaphore, requests_per_minute, processed_data,
                   error_data, output_file, mergeVars, buildVars, clientVars, runVars>>

\* an exception of save_processed_data caught like those of the batch: the
\* loop goes on
SaveErrorCaught(o) ==
    IF o.i + BatchSizeOf(o.run) < o.total THEN "pause" ELSE "done"

\* self.save_processed_data() stands after the try block of the loop body,
\* and no caller catches: its exception ends the run
SaveErrorRaised(o) == "raised"

\* save_processed_data raises (a disk that is full, a file that cannot be
\* opened): in open() of the checkpoint file, in json.dump after open() has
\* emptied it, or in open() of the error file. Where the exception ends the
\* run, the process exits and what it held in memory is gone.
save_raises ==
    /\ UNCHANGED clock
    /\ \/ orch.pc \in {"save_open", "save_dump"}
       \/ orch.pc = "save_errors" /\ error_data # <<>>
    /\ orch' = [orch EXCEPT !.pc = SaveErrorRaised(orch), !.save_failed = TRUE,
                             !.admitted = 0, !.stale = {}]
    /\ IF orch'.pc = "raised"
       THEN /\ task' = [k \in DOMAIN task |-> NoTask]
            /\ finished' = <<>>
            /\ vision_semaphore' = [value |-> 0, waiters |-> <<>>]
            /\ requests_per_minute' = 0
            /\ processed_data' = <<>>
            /\ error_data' = <<>>
       ELSE UNCHANGED <<task, finished, vision_semaphore, requests_per_minute,
                        processed_data, error_data>>
    /\ UNCHANGED <<output_file, error_file, mergeVars, buildVars, clientVars, runVars>>

\* an IconProcessor or RetryProcessor that holds some results and errors and
\* is about to save them
InitSaveVars ==
    /\ \E run \in Runs :
          orch = [run |-> run, total |-> 0, pc |-> "save_open", i |-> 0,
                  processed_count |-> 0, failed_count |-> 0, writes |-> 0,
                  saved |-> <<>>, first_output |-> NoOutput, save_failed |-> FALSE,
                  admitted |-> 0, stale |-> {}]
    /\ task = <<>>
    /\ finished = <<>>
    /\ vision_semaphore = [value |-> VisionSlots, waiters |-> <<>>]
    /\ requests_per_minute = 0
    /\ clock = 0
    /\ processed_data \in {Ascending(1, n) : n \in 0..MaxItems}
    /\ error_data \in {<<>>} \cup
                       {<<[item |-> MaxItems + 1, step |-> step]>> :
                           step \in {"validation", "image_preparation",
                                      "vision_api", "general_exception"}}
    /\ output_file = NoOutput
    /\ error_file = NoErrors

\* self.save_processed_data() is called once more, on the same results
save_again ==
    /\ UNCHANGED clock
    /\ orch.pc = "done"
    /\ orch.writes \in 1..(MaxSaves - 1)
    /\ orch' = [orch EXCEPT !.pc = "save_open"]
    /\ UNCHANGED <<task, finished, vision_semaphore, requests_per_minute, processed_data,
                   error_data, output_file, error_file, mergeVars, buildVars, clientVars,
                   runVars>>

Running == orch.pc \notin {"idle", "done", "raised", "crashed"}

\* the process is killed: what it held in memory is gone, the files stay
crash ==
    /\ UNCHANGED clock
    /\ Running
    /\ orch' = [orch EXCEPT !.pc = "crashed", !.admitted = 0, !.stale = {}]
    /\ task' = [k \in DOMAIN task |-> NoTask]
    /\ finished' = <<>>
    /\ vision_semaphore' = [value |-> 0, waiters |-> <<>>]
    /\ requests_per_minute' = 0
    /\ processed_data' = <<>>
    /\ error_data' = <<>>
    /\ UNCHANGED <<output_file, error_file, mergeVars, buildVars, clientVars, runVars>>

(***************************************************************************)
(* main() of embed_single_process.py, embed_db_missing.py and              *)
(* embed_failed_icons.py: the run around the EmbeddingServer               *)
(***************************************************************************)
\* todo: the records main goes through, by their place in the file or
\* table; and, kept for the claims and read by no action: loaded, the
\* records as main loaded them; requests, the requests sent; received, the
\* records that were given an embedding; written, the file was written or
\* the transaction committed
RunIdle == [script |-> "none", total |-> 0, pc |-> "idle", i |-> 1,
            completed |-> 0, failed |-> 0, raising |-> FALSE,
            todo |-> <<>>, loaded |-> <<>>, requests |-> <<>>, received |-> {},
            written |-> FALSE]

\* a selection without the test of the embedding, in every script
EveryRecord(s, records) == [k \in DOMAIN records |-> k]

\* every record of the file is gone through: for i, icon in enumerate(icons, 1)
AllRecords(s, records) == [k \in DOMAIN records |-> k]

RECURSIVE WithoutEmbedding(_, _)
WithoutEmbedding(records, k) ==
    IF k > Len(records) THEN <<>>
    ELSE (IF Truthy(records[k]) THEN <<>> ELSE <<k>>) \o WithoutEmbedding(records, k + 1)

\* the records main goes through: icons_without_embeddings of
\* embed_single_process.py, the rows of embed_db_missing.py's SELECT, and
\* every record of the file in embed_failed_icons.py
Todo(s, records) ==
    IF s = "embed_failed_icons" THEN AllRecords(s, records)
    ELSE WithoutEmbedding(records, 1)

IdleRunVars ==
    /\ embed_run = RunIdle
    /\ temp_dir = FALSE
    /\ process = "none"
    /\ embedded = <<>>
    /\ stored = <<>>

\* main() has loaded the records that have no embedding: the file's
\* icons_without_embeddings, the table's rows with a NULL embedding, or all
\* of failed_icons_processed.json
InitRunVars ==
    /\ \E s \in Scripts :
          \E records \in SeqsUpTo({NoEmbedding, ListEmbedding(Vector(EmbeddingDimensions))},
                                  MaxRequests) :
             /\ embed_run = [RunIdle EXCEPT !.script = s, !.pc = "start",
                                            !.todo = Todo(s, records),
                                            !.total = Len(Todo(s, records)),
                                            !.loaded = records]
             /\ embedded = records
             /\ stored = records
    /\ temp_dir = FALSE
    /\ process = "none"

\* embed_single_process.py and embed_db_missing.py return before the setup
\* when no record lacks an embedding; embed_failed_icons.py has no such test
ReturnsWhenNothingToEmbed(s) == s \in {"embed_single_process", "embed_db_missing"}

nothing_to_embed ==
    /\ embed_run.pc = "start"
    /\ embed_run.total = 0
    /\ ReturnsWhenNothingToEmbed(embed_run.script)
    /\ embed_run' = [embed_run EXCEPT !.pc = "returned"]
    /\ UNCHANGED <<temp_dir, process, embedded, stored,
                   mergeVars, buildVars, clientVars, orchVars>>

\* setup_node_environment: mkdtemp, the two files, npm install; a failed
\* install raises out of main
setup_node_environment(installed) ==
    /\ embed_run.pc = "start"
    /\ embed_run.total = 0 => ~ReturnsWhenNothingToEmbed(embed_run.script)
    /\ temp_dir' = TRUE
    /\ embed_run' = [embed_run EXCEPT !.pc = IF installed THEN "setup" ELSE "raised"]
    /\ UNCHANGED <<process, embedded, stored,
                   mergeVars, buildVars, clientVars, orchVars>>

\* server.start(): Popen starts the worker, or raises out of main (node is
\* not to be found)
server_start(started) ==
    /\ embed_run.pc = "setup"
    /\ process' = IF started THEN "running" ELSE process
    /\ embed_run' = [embed_run EXCEPT !.pc = IF started THEN "loop" ELSE "raised"]
    /\ UNCHANGED <<temp_dir, embedded, stored,
                   mergeVars, buildVars, clientVars, orchVars>>

\* what generate_embedding can return to main: an embedding when the worker
\* answers, which it does only to a request that ends its line; None on an
\* error response, or at the timeout
CanReturn(s, embedding) ==
    IF Truthy(embedding) THEN RequestTerminated(s)
    ELSE RequestTerminated(s) \/ HasTimeout(s)

\* the embeddings a worker's model may give: a list of numbers of the
\* model's length
ModelEmbeddings ==
    {NoEmbedding} \cup {ListEmbedding(Vector(len)) : len \in 1..(EmbeddingDimensions + 1)}

\* one pass of main's loop: generate_embedding returns, and the embedding is
\* put into the record (of the loaded file, or of the table by an UPDATE in
\* the open transaction)
embed_item(embedding) ==
    /\ embed_run.pc = "loop"
    /\ embed_run.i <= embed_run.total
    /\ CanReturn(embed_run.script, embedding)
    /\ LET record == embed_run.todo[embed_run.i]
           request == [id |-> embed_run.i, record |-> record]
       IN IF Truthy(embedding)
          THEN /\ embedded' = [embedded EXCEPT ![record] = embedding]
               /\ embed_run' = [embed_run EXCEPT !.i = @ + 1, !.completed = @ + 1,
                                                 !.requests = Append(@, request),
                                                 !.received = @ \cup {record}]
          ELSE /\ embedded' = embedded
               /\ embed_run' = [embed_run EXCEPT !.i = @ + 1, !.failed = @ + 1,
                                                 !.requests = Append(@, request)]
    /\ UNCHANGED <<temp_dir, process, stored,
                   mergeVars, buildVars, clientVars, orchVars>>

\* an exception in the loop (the write to a dead worker's stdin, an
\* interrupt from the keyboard): on to the finally clause
loop_raises ==
    /\ embed_run.pc = "loop"
    /\ embed_run.i <= embed_run.total
    /\ embed_run' = [embed_run EXCEPT !.pc = "finally", !.raising = TRUE]
    /\ UNCHANGED <<temp_dir, process, embedded, stored,
                   mergeVars, buildVars, clientVars, orchVars>>

\* after the loop: json.dump of the data to the file, or conn.commit(); it
\* may raise
save_embeddings(saved) ==
    /\ embed_run.pc = "loop"
    /\ embed_run.i > embed_run.total
    /\ stored' = IF saved THEN embedded ELSE stored
    /\ embed_run' = [embed_run EXCEPT !.pc = "finally", !.raising = ~saved,
                                      !.written = saved]
    /\ UNCHANGED <<temp_dir, process, embedded,
                   mergeVars, buildVars, clientVars, orchVars>>

\* the finally clause: server.close(), (conn.close(),) shutil.rmtree
cleanup ==
    /\ embed_run.pc = "finally"
    /\ process' = "terminated"
    /\ temp_dir' = FALSE
    /\ embed_run' = [embed_run EXCEPT !.pc = IF embed_run.raising THEN "raised" ELSE "returned"]
    /\ UNCHANGED <<embedded, stored, mergeVars, buildVars, clientVars, orchVars>>

RunInterruptible == embed_run.pc \in {"setup", "loop", "finally"}

\* the run is killed: no finally clause runs, and what it held in memory or
\* in its open transaction is gone
kill_run ==
    /\ RunInterruptible
    /\ embed_run' = [embed_run EXCEPT !.pc = "killed"]
    /\ embedded' = stored
    /\ UNCHANGED <<temp_dir, process, stored, mergeVars, buildVars, clientVars, orchVars>>

\* the names of the records of failed_icons_processed.json
FailedIcons == <<1>>

\* the rows add_failed_to_db.py inserts: a row of icons with embedding None
\* for every record of the file whose name is not in the table
RECURSIVE AddedRows(_, _)
AddedRows(rows, names) ==
    IF names = <<>> THEN rows
    ELSE AddedRows(
            IF \E r \in DOMAIN rows : rows[r].name = Head(names)
            THEN rows
            ELSE Append(rows, [id |-> Len(rows) + 1, name |-> Head(names),
                               embedding |-> NoEmbedding]),
            Tail(names))

\* add_failed_to_db.py on the built database
add_failed_to_db ==
    /\ build.pc = "done"
    /\ icons' = AddedRows(icons, FailedIcons)
    /\ build' = [build EXCEPT !.pc = "added"]
    /\ UNCHANGED <<input_icons, icon_embeddings, icons_fts, metadata,
                   mergeVars, clientVars, orchVars, runVars>>

\* what generate_embedding of embed_db_missing.py can return
BackfillEmbeddings == {e \in ModelEmbeddings : CanReturn("embed_db_missing", e)}

\* embed_db_missing.py on the built database, from its SELECT to its commit:
\* UPDATE icons SET embedding for the rows without one for which
\* generate_embedding returned an embedding
embed_db_missing ==
    /\ build.pc \in {"done", "added"}
    /\ \E result \in [DOMAIN icons -> BackfillEmbeddings] :
          icons' = [r \in DOMAIN icons |->
                      IF NeedsEmbedding(icons[r]) /\ Truthy(result[r])
                      THEN [icons[r] EXCEPT !.embedding = result[r]]
                      ELSE icons[r]]
    /\ build' = [build EXCEPT !.pc = "backfilled"]
    /\ UNCHANGED <<input_icons, icon_embeddings, icons_fts, metadata,
                   mergeVars, clientVars, orchVars, runVars>>

InitMerge == InitMergeVars /\ IdleBuildVars /\ IdleClientVars /\ IdleOrchVars /\ IdleRunVars
NextMerge == combine_runs
SpecMerge == InitMerge /\ [][NextMerge]_vars

InitBuild == InitBuildVars /\ IdleMergeVars /\ IdleClientVars /\ IdleOrchVars /\ IdleRunVars
NextBuild ==
    \/ builder_init
    \/ build_abort
    \/ create_database
    \/ insert_icon
    \/ create_metadata_table
    \/ verify_database
    \/ add_failed_to_db
    \/ embed_db_missing
    \/ quick_fix_failed
SpecBuild == InitBuild /\ [][NextBuild]_vars

NextClient ==
    \/ \E id \in RequestIds : send_request(id)
    \/ worker_line
    \/ \E id \in RequestIds, failed \in BOOLEAN : worker_respond(id, failed)
    \/ worker_exit
    \/ read_responses
    \/ \E id \in RequestIds : get_response(id)
    \/ \E id \in RequestIds : wait_timeout(id)

StartFates == {"validation", "image_preparation", "general_exception", "proceed"}
CallOutcomes == {"ok", "vision_api", "general_exception"}

NextOrch ==
    \/ no_icons
    \/ start_batch
    \/ \E k \in DOMAIN task, fate \in StartFates, window \in Windows :
          task_start(k, fate, window)
    \/ \E k \in DOMAIN task, window \in Windows : task_granted(k, window)
    \/ \E k \in DOMAIN task, window \in Windows : task_wake(k, window)
    \/ \E k \in DOMAIN task, outcome \in CallOutcomes : task_return(k, outcome)
    \/ collect_results
    \/ save_open
    \/ save_dump
    \/ save_errors
    \/ save_raises
    \/ crash

\* save_processed_data alone, called MaxSaves times
NextSave == save_open \/ save_dump \/ save_errors \/ save_again
InitSave == InitSaveVars /\ IdleMergeVars /\ IdleBuildVars /\ IdleClientVars /\ IdleRunVars
SpecSave == InitSave /\ [][NextSave]_vars

InitOrch == InitOrchVars /\ IdleMergeVars /\ IdleBuildVars /\ IdleClientVars /\ IdleRunVars
SpecOrch == InitOrch /\ [][NextOrch]_vars

NextRun ==
    \/ nothing_to_embed
    \/ \E installed \in BOOLEAN : setup_node_environment(installed)
    \/ \E started \in BOOLEAN : server_start(started)
    \/ \E embedding \in ModelEmbeddings : embed_item(embedding)
    \/ loop_raises
    \/ \E saved \in BOOLEAN : save_embeddings(saved)
    \/ cleanup
    \/ kill_run

InitRun == InitRunVars /\ IdleMergeVars /\ IdleBuildVars /\ IdleClientVars /\ IdleOrchVars
SpecRun == InitRun /\ [][NextRun]_vars

\* the scripts' main: one request at a time
InitEmbed == InitClientVars("loop") /\ IdleMergeVars /\ IdleBuildVars /\ IdleOrchVars /\ IdleRunVars
SpecEmbed == InitEmbed /\ [][NextClient]_vars

\* the EmbeddingServer class under independent callers
InitClient == InitClientVars("concurrent") /\ IdleMergeVars /\ IdleBuildVars /\ IdleOrchVars /\ IdleRunVars
SpecClient == InitClient /\ [][NextClient]_vars


(***************************************************************************)
(* Claims about combine_runs.py, under SpecMerge.                          *)
(***************************************************************************)
R1 == input_files[1]
R2 == input_files[2]
MergedIcons == combined.processed_icons

HasNamed(s, x) == \E k \in DOMAIN s : s[k].name = x
FirstNamed(s, x) == s[CHOOSE k \in DOMAIN s :
                        s[k].name = x /\ \A j \in 1..(k - 1) : s[j].name # x]

\* R1 and R2 both hold a record named x, with different descriptions
SharedName(x) ==
    \E a \in DOMAIN R1, b \in DOMAIN R2 :
        /\ R1[a].name = x
        /\ R2[b].name = x
        /\ R1[a].description # R2[b].description

\* C1 as stated: whenever R1 and R2 share a name x with different
\* descriptions, the merge result holds a record named x and it is R1's
\* version, and the result has at most len(R1)+len(R2) records.
C1_MergedHasR1Version ==
    merge_pc = "done" =>
        /\ \A x \in 1..2 :
              SharedName(x) =>
                 \E k \in DOMAIN MergedIcons : MergedIcons[k] = FirstNamed(R1, x)
        /\ Len(MergedIcons) <= Len(R1) + Len(R2)

\* C1, amended: whenever R1 and R2 share a name x with different
\* descriptions, every record named x of the merge result is R1's first
\* record named x and there is at most one; there is one exactly when that
\* record of R1 passes validation (otherwise the result holds no record
\* named x, R2's version included); the result has at most len(R1)+len(R2)
\* records.
C1_FirstOccurrenceWins ==
    merge_pc = "done" =>
        /\ \A x \in 1..2 :
              SharedName(x) =>
                 /\ \A k \in DOMAIN MergedIcons :
                       MergedIcons[k].name = x => MergedIcons[k] = FirstNamed(R1, x)
                 /\ Cardinality({k \in DOMAIN MergedIcons : MergedIcons[k].name = x}) <= 1
                 /\ HasNamed(MergedIcons, x) <=> validate_icon_data(FirstNamed(R1, x))
        /\ Len(MergedIcons) <= Len(R1) + Len(R2)

\* a merge of two runs that share a name with different descriptions, both
\* versions valid, whose result holds R1's version
C1_Witness ==
    /\ merge_pc = "done"
    /\ \E x \in 1..2 :
          /\ SharedName(x)
          /\ validate_icon_data(FirstNamed(R1, x))
          /\ validate_icon_data(FirstNamed(R2, x))
          /\ FirstNamed(R1, x).description # FirstNamed(R2, x).description
          /\ \E k \in DOMAIN MergedIcons : MergedIcons[k] = FirstNamed(R1, x)

\* C13, under SpecMerge: every record of the output has a name, a
\* description, a local_path and an embedding that is a non-empty list of
\* numbers; the output holds every deduplicated record that has, and the
\* others are counted in invalid_removed.
WellFormed(icon) ==
    /\ icon.name # 0
    /\ icon.description # 0
    /\ icon.local_path # 0
    /\ icon.embedding.kind = "list"
    /\ Len(icon.embedding.vec) > 0
    /\ \A k \in DOMAIN icon.embedding.vec : IsNumber(icon.embedding.vec[k])
Deduplicated == deduplicate_icons(Concat(input_files))
C13_OutputIsValidated ==
    (merge_pc = "done" /\ combined.written) =>
        /\ \A k \in DOMAIN combined.processed_icons :
              WellFormed(combined.processed_icons[k])
        /\ \A k \in DOMAIN Deduplicated :
              WellFormed(Deduplicated[k]) =>
                 \E j \in DOMAIN combined.processed_icons :
                    combined.processed_icons[j] = Deduplicated[k]
        /\ combined.invalid_removed =
              Len(Deduplicated) - Len(SelectSeq(Deduplicated, WellFormed))

\* C14, under SpecMerge: the records of the output are in strictly
\* ascending order of their names: sorted, and no name twice.
C14_StrictlyAscendingNames ==
    merge_pc = "done" =>
        \A j, k \in DOMAIN MergedIcons :
            j < k => MergedIcons[j].name < MergedIcons[k].name

\* an output of two records from files that hold the greater name first and
\* share a name
C14_Witness ==
    /\ merge_pc = "done"
    /\ Len(MergedIcons) = 2
    /\ R1 # <<>>
    /\ R1[1].name = 2
    /\ \E x \in 1..2 : HasNamed(R1, x) /\ HasNamed(R2, x)

\* the records loaded from the input files, in the order of the files
Loaded == Concat(input_files)

\* C26, under SpecMerge: a name is in the output iff the first record of
\* that name in the concatenated input passes validation; when it does not,
\* the name is absent even if a later record of that name is valid.
C26_DedupBeforeValidate ==
    merge_pc = "done" =>
        \A x \in 1..2 :
           HasNamed(MergedIcons, x) <=>
              (HasNamed(Loaded, x) /\ validate_icon_data(FirstNamed(Loaded, x)))

\* the first run holds a record without an embedding, the second run a
\* valid record of the same name, and the output, written for another
\* name, has no record of that name
C26_Witness ==
    /\ merge_pc = "done"
    /\ combined.written
    /\ \E x \in 1..2 :
          /\ HasNamed(R1, x)
          /\ FirstNamed(R1, x).embedding = NoEmbedding
          /\ \E k \in DOMAIN R2 : R2[k].name = x /\ validate_icon_data(R2[k])
          /\ ~HasNamed(MergedIcons, x)

(***************************************************************************)
(* Claims about build_db.py, under SpecBuild.                              *)
(***************************************************************************)
\* the records insert_icons has gone through
Attempted == 1..(build.next - 1)

\* the record at position k is not rejected by the primary table: it has a
\* name and no earlier record of the input has the same name
Insertable(k) ==
    /\ input_icons[k].name # 0
    /\ \A j \in 1..(k - 1) : input_icons[j].name # input_icons[k].name

RowsNamed(n) == {r \in DOMAIN icons : icons[r].name = n}
HasVector(id) == \E v \in icon_embeddings : v.icon_id = id

\* C2: at every point of insert_icons, for every record it has gone through
\* that the primary table does not reject, the primary-table row exists,
\* and the vector index holds a row for it iff its embedding is a list of
\* exactly EmbeddingDimensions numbers (a missing, null, empty or shorter
\* embedding gives no vector row); every vector row has that length.
C2_EmbeddingGate ==
    /\ \A k \in Attempted :
          Insertable(k) =>
             LET icon == input_icons[k]
             IN /\ Cardinality(RowsNamed(icon.name)) = 1
                /\ \A r \in RowsNamed(icon.name) :
                      HasVector(icons[r].id) <=>
                         (icon.embedding.kind = "list"
                          /\ Len(icon.embedding.vec) = EmbeddingDimensions
                          /\ \A e \in DOMAIN icon.embedding.vec :
                                IsNumber(icon.embedding.vec[e]))
                /\ \A r \in RowsNamed(icon.name), v \in icon_embeddings :
                      v.icon_id = icons[r].id => v.embedding = icon.embedding.vec
    /\ \A v \in icon_embeddings : Len(v.embedding) = EmbeddingDimensions

\* a finished build that took one record with an embedding one short of the
\* configured length (row, no vector) and one of the configured length
C2_Witness ==
    /\ build.pc = "done"
    /\ \E k \in Attempted :
          /\ Insertable(k)
          /\ input_icons[k].embedding.kind = "list"
          /\ Len(input_icons[k].embedding.vec) = EmbeddingDimensions - 1
          /\ \E r \in RowsNamed(input_icons[k].name) : ~HasVector(icons[r].id)
    /\ \E k \in Attempted :
          /\ Len(input_icons[k].embedding.vec) = EmbeddingDimensions
          /\ \E r \in RowsNamed(input_icons[k].name) : HasVector(icons[r].id)

\* the build has gone through the whole input and committed
Assembled == build.pc \in {"verify", "done"}

\* C15, under SpecBuild: after assembly every row of the primary table has
\* a row of the lexical index with the same id, whether the record has a
\* valid embedding or not: as many lexical rows as primary rows, and at
\* most as many vector rows.
C15_EveryRowIsIndexed ==
    Assembled =>
        /\ \A r \in DOMAIN icons : icons[r].id \in icons_fts
        /\ Cardinality(icons_fts) = Len(icons)
        /\ Cardinality(icon_embeddings) <= Len(icons)

\* C16, under SpecBuild: a build whose input has no records creates no
\* table and writes no metadata.
C16_NoRecordsNoDatabase ==
    (build.pc # "start" /\ Len(input_icons) = 0) =>
        /\ ~build.schema
        /\ metadata = <<>>
        /\ icons = <<>> /\ icon_embeddings = {} /\ icons_fts = {}

\* build() has returned on an input without records
C16_Witness ==
    /\ build.pc = "aborted"
    /\ Len(input_icons) = 0
    /\ ~build.schema

\* the row of the primary table for the record at position k is the one
\* insert_icons wrote for that record
RowOf(k, r) ==
    /\ icons[r].name = input_icons[k].name
    /\ icons[r].embedding =
          IF EmbeddingAccepted(input_icons[k].embedding)
          THEN input_icons[k].embedding ELSE NoEmbedding

\* C17, under SpecBuild: a record whose insert fails is counted and the
\* loop goes on: after assembly every record with a name that no earlier
\* record has is in the primary table, with the content of that first
\* record, and inserted_count + failed_count is the number of input
\* records; during the loop the two counts add up to the records gone
\* through.
C17_FailureIsCountedAndIsolated ==
    /\ build.pc \in {"insert", "verify", "done"} =>
          /\ build.inserted_count + build.failed_count = Cardinality(Attempted)
          /\ \A k \in Attempted :
                Insertable(k) =>
                   /\ Cardinality(RowsNamed(input_icons[k].name)) = 1
                   /\ \A r \in RowsNamed(input_icons[k].name) : RowOf(k, r)
    /\ Assembled =>
          /\ Attempted = DOMAIN input_icons
          /\ build.inserted_count + build.failed_count = Len(input_icons)

\* a finished build of three records whose second has the name of the
\* first and another embedding: the second was counted as failed, the first
\* is the row of that name, and the third was inserted after the failure
C17_Witness ==
    /\ build.pc = "done"
    /\ Len(input_icons) = 3
    /\ input_icons[1].name # 0
    /\ input_icons[2].name = input_icons[1].name
    /\ EmbeddingAccepted(input_icons[2].embedding)
    /\ ~EmbeddingAccepted(input_icons[1].embedding)
    /\ input_icons[3].name \notin {0, input_icons[1].name}
    /\ build.failed_count = 1
    /\ build.inserted_count = 2
    /\ \E r \in RowsNamed(input_icons[3].name) : RowOf(3, r)
    /\ \A r \in RowsNamed(input_icons[1].name) : RowOf(1, r)

\* C19, under SpecBuild: every embedding stored in the database, in the
\* embedding column of the primary table or in the vector index, has the
\* configured length EmbeddingDimensions, after the build and after
\* quick_fix_failed.py.
C19_OnlyConfiguredLengthStored ==
    /\ \A r \in DOMAIN icons :
          Truthy(icons[r].embedding) =>
             Len(icons[r].embedding.vec) = EmbeddingDimensions
    /\ \A v \in icon_embeddings : Len(v.embedding) = EmbeddingDimensions

\* C20, under SpecBuild: one dimensionality is used in the whole build: the
\* vector index has the configured width, and the test vector of
\* verify_database has the configured length, so that its query on the
\* index is answered.
C20_OneDimensionality ==
    /\ build.schema => build.index_width = EmbeddingDimensions
    /\ build.pc \in {"done", "fixed"} =>
          /\ TestEmbeddingLength = EmbeddingDimensions
          /\ build.vector_search = "ok"

\* C24, under SpecBuild: the total_icons of the metadata table is the
\* number of rows of the primary table after assembly, for every input,
\* those with failed inserts included.
C24_MetadataCountsRows ==
    (Assembled /\ metadata # <<>>) => metadata.total_icons = Len(icons)

\* a step of embed_db_missing.py or quick_fix_failed.py
BackfillStep ==
    /\ build.pc \in {"done", "added", "backfilled"}
    /\ build'.pc \in {"backfilled", "fixed"}

\* the step leaves every row in place with its id and its name, leaves
\* alone the rows that have an embedding, and leaves the two indexes and the
\* metadata as they are
OnlyMissingEmbeddingsChange ==
    /\ DOMAIN icons' = DOMAIN icons
    /\ \A r \in DOMAIN icons :
          /\ icons'[r].id = icons[r].id
          /\ icons'[r].name = icons[r].name
          /\ Truthy(icons[r].embedding) => icons'[r] = icons[r]
    /\ icon_embeddings' = icon_embeddings
    /\ icons_fts' = icons_fts
    /\ metadata' = metadata

\* C25, under SpecBuild: a pass of embed_db_missing.py or of
\* quick_fix_failed.py over the built database changes nothing but the
\* embedding column of rows whose embedding was null or empty.
C25_BackfillFrame == [][BackfillStep => OnlyMissingEmbeddingsChange]_vars

\* after quick_fix_failed.py: a row of failed_names has the dummy
\* embedding, and another row has the embedding the build gave it
C25_Witness ==
    /\ build.pc = "fixed"
    /\ \E r \in DOMAIN icons :
          /\ icons[r].name \in FailedNames
          /\ icons[r].embedding = ListEmbedding(Vector(DummyEmbeddingLength))
    /\ \E r \in DOMAIN icons :
          /\ icons[r].name \notin FailedNames
          /\ Truthy(icons[r].embedding)
          /\ HasVector(icons[r].id)

\* C28, under SpecBuild: after the build and after any of
\* add_failed_to_db.py, embed_db_missing.py and quick_fix_failed.py, every
\* row of the primary table has a row of the lexical index, and has a row
\* of the vector index iff its embedding column is not null.
C28_IndexesConsistent ==
    (Assembled \/ Built) =>
        \A r \in DOMAIN icons :
           /\ icons[r].id \in icons_fts
           /\ HasVector(icons[r].id) <=> Truthy(icons[r].embedding)

\* no database file at db_path
NoDatabaseFile == build.db_file \in {"absent", "removed"}

\* C29, under SpecBuild: after the constructor there is no database file at
\* db_path until create_database creates one, so a build that returns on an
\* input without records leaves none, the artifact of an earlier build
\* being removed.
C29_AbortLeavesNoDatabase ==
    /\ build.pc = "start" => NoDatabaseFile
    /\ build.pc = "aborted" => (NoDatabaseFile /\ Len(input_icons) = 0)

\* build() has returned on an input without records, and the constructor
\* had removed the database of an earlier build
C29_Witness ==
    /\ build.pc = "aborted"
    /\ build.db_file = "removed"

(***************************************************************************)
(* Claims about EmbeddingServer.                                           *)
(***************************************************************************)
OnQueue(id) == \E k \in DOMAIN response_queue : response_queue[k].id = id
OnStdout(id) == \E k \in DOMAIN stdout : stdout[k].json /\ stdout[k].id = id
InLines(id) == \E k \in DOMAIN stdin.lines : stdin.lines[k] = id

\* C3, under SpecClient: no caller is left waiting for a response that has
\* arrived on response_queue and that another caller has taken off it (the
\* response is still on the queue, or the caller's wait ends by itself).
C3_ArrivedResponseReachesCaller ==
    \A id \in RequestIds :
        (caller[id].pc = "waiting" /\ id \in arrived) =>
            OnQueue(id) \/ ENABLED wait_timeout(id)

\* C4, under SpecClient: a call that returned on a response returned on the
\* response tagged with its own id, with that response's embedding, or None
\* when the response carries the error marker; a call that returned on no
\* response returned None; no call raises once its request is written
\* (a raising call never had a response).
C4_OnlyOwnResponse ==
    \A id \in RequestIds :
        /\ caller[id].pc = "returned" =>
              IF caller[id].by.json
              THEN /\ caller[id].by.id = id
                   /\ id \in arrived
                   /\ caller[id].result =
                         IF caller[id].by.error THEN None
                         ELSE Returned(EmbeddingOf(TextOf(id)))
              ELSE caller[id].result = None
        /\ caller[id].pc = "raised" => id \notin arrived

\* a call that dropped another id's response and then returned its own
\* embedding, and a call that returned None on an error response
C4_Witness ==
    /\ \E id, other \in RequestIds :
          /\ id # other
          /\ caller[id].pc = "returned"
          /\ caller[id].result = Returned(EmbeddingOf(TextOf(id)))
          /\ <<id, other>> \in discarded
    /\ \E id \in RequestIds :
          /\ caller[id].pc = "returned"
          /\ caller[id].by.json
          /\ caller[id].by.error
          /\ caller[id].result = None

\* the worker will never write a response tagged id: none is on its way and
\* the worker is dead or never received the request as a line
NoResponseToCome(id) ==
    /\ ~OnQueue(id)
    /\ ~OnStdout(id)
    /\ ~worker.alive \/ (id \notin worker.inflight /\ ~InLines(id))

\* C10, under SpecEmbed: a call whose response will never come can still
\* return: its wait is bounded.
C10_WaitIsBounded ==
    \A id \in RequestIds :
        (caller[id].pc = "waiting" /\ NoResponseToCome(id)) => ENABLED wait_timeout(id)

(***************************************************************************)
(* Claims about IconProcessor and RetryProcessor, under SpecOrch.          *)
(***************************************************************************)
\* total_batches
Batches(o) == (o.total + BatchSizeOf(o.run) - 1) \div BatchSizeOf(o.run)
\* batch_num
BatchNum(o) == (o.i \div BatchSizeOf(o.run)) + 1
\* the items whose batch's results are in processed_data
Collected(o) ==
    IF o.pc \in {"start", "gather"} THEN o.i
    ELSE Min(o.i + BatchSizeOf(o.run), o.total)
Dispatched(k) == task[k].pc # "none"
Names(order) == [j \in DOMAIN order |-> NameOf(order[j])]
InResults(k) == \E j \in DOMAIN processed_data : processed_data[j] = NameOf(k)
ErrorRecords(k) == {j \in DOMAIN error_data : error_data[j].item = k}
ErrorSteps == {"validation", "image_preparation", "vision_api", "general_exception"}
Failed(k) == task[k].pc = "done" /\ ~IsIcon(k)
\* the tasks that hold a slot of vision_semaphore
Holders == {k \in DOMAIN task : task[k].pc \in {"sem_granted", "rate_sleep", "in_call"}}
InFlight == {k \in DOMAIN task : task[k].pc = "in_call"}
Waiting == {k \in DOMAIN task : task[k].pc = "sem_wait"}

\* C5, under SpecOrch: after a crash at any step of a run that has completed
\* a checkpoint write, the checkpoint file holds the accumulated results of
\* the batches up to the last completed one.
C5_CrashLeavesLastCheckpoint ==
    (orch.pc = "crashed" /\ orch.writes > 0) =>
        /\ output_file.state = "complete"
        /\ output_file.processed_icons = orch.saved
        /\ output_file.total_count = Len(orch.saved)

\* C6, under SpecOrch: in the main run and in the retry run, an item is
\* dispatched only when the checkpoint of every earlier batch is written,
\* each batch has exactly one checkpoint write, whatever became of its
\* items, and the run ends with the checkpoint of the last batch written.
C6_CheckpointsSequential ==
    orch.pc \notin {"crashed", "raised"} =>
        /\ \A k \in DOMAIN task :
              Dispatched(k) => orch.writes >= (k - 1) \div BatchSizeOf(orch.run)
        /\ orch.pc = "start" => orch.writes = 0
        /\ orch.pc \in {"gather", "save_open", "save_dump"} =>
              orch.writes = BatchNum(orch) - 1
        /\ orch.pc \in {"save_errors", "pause"} => orch.writes = BatchNum(orch)
        /\ orch.pc = "done" =>
              /\ orch.writes = Batches(orch)
              /\ orch.total > 0 =>
                    /\ output_file.state = "complete"
                    /\ output_file.processed_icons = processed_data

\* a main run and a retry run in their second batch, with an item in its
\* call, after a first batch of which every item failed
C6_Witness ==
    /\ orch.pc = "gather"
    /\ orch.i > 0
    /\ orch.writes = 1
    /\ \A k \in 1..orch.i : Failed(k)
    /\ \E k \in BatchOf(orch) : task[k].pc = "in_call"

\* C7, under SpecOrch: processed_data is the input sequence restricted to
\* the successful items of the batches collected so far, in whatever order
\* the items of a batch completed.
C7_InputOrderPreserved ==
    orch.pc \notin {"crashed", "raised"} =>
        processed_data = Names(SelectSeq(Ascending(1, Collected(orch)), IsIcon))

\* a batch is collected of which two successful items completed in the
\* reverse of their input order
C7_Witness ==
    /\ orch.pc = "save_open"
    /\ \E x, y \in DOMAIN finished :
          /\ x < y
          /\ finished[x] > finished[y]
          /\ IsIcon(finished[x])
          /\ IsIcon(finished[y])

\* C8, under SpecOrch: every successful item of a collected batch is in
\* processed_data, whatever became of its siblings; every failed item has
\* exactly one error record, whose step is one of the four, and a
\* successful item has none; and a run that ends has processed every item
\* of every batch.
C8_FailuresIsolated ==
    orch.pc \notin {"crashed", "raised"} =>
        /\ \A k \in 1..Collected(orch) : IsIcon(k) => InResults(k)
        /\ \A k \in DOMAIN task :
              /\ Failed(k) =>
                    /\ Cardinality(ErrorRecords(k)) = 1
                    /\ \A j \in ErrorRecords(k) : error_data[j].step \in ErrorSteps
              /\ ~Failed(k) => ErrorRecords(k) = {}
        /\ orch.pc = "done" => \A k \in DOMAIN task : task[k].pc = "done"

\* a finished run of two batches with a failure at each of the four steps,
\* where an item of the first batch succeeded after a sibling before it had
\* failed
C8_Witness ==
    /\ orch.pc = "done"
    /\ orch.i > 0
    /\ \A step \in ErrorSteps : \E j \in DOMAIN error_data : error_data[j].step = step
    /\ \E k \in 1..BatchSizeOf(orch.run) :
          /\ IsIcon(k)
          /\ InResults(k)
          /\ \E j \in 1..(k - 1) : Failed(j)
    /\ \E k \in BatchOf(orch) : Failed(k)

\* C9, under SpecOrch: at most VisionSlots tasks are past the semaphore, the
\* calls in flight among them; every slot is free or held, so that every
\* exit of a call has released its slot; and a task waits for a slot only
\* while none is free.
C9_AtMostKInFlight ==
    orch.pc \notin {"crashed", "raised"} =>
        /\ InFlight \subseteq Holders
        /\ Cardinality(Holders) <= VisionSlots
        /\ vision_semaphore.value >= 0
        /\ vision_semaphore.value + Cardinality(Holders) = VisionSlots
        /\ Waiting = {vision_semaphore.waiters[j] : j \in DOMAIN vision_semaphore.waiters}
        /\ Waiting # {} => vision_semaphore.value = 0

\* a batch larger than the semaphore: a call has just failed, its slot went
\* to the task that waited for it, and every slot is held
C9_Witness ==
    /\ BatchSizeOf(orch.run) > VisionSlots
    /\ orch.pc = "gather"
    /\ finished # <<>>
    /\ Failed(finished[Len(finished)])
    /\ \E j \in ErrorRecords(finished[Len(finished)]) : error_data[j].step = "vision_api"
    /\ \E k \in BatchOf(orch) : task[k].pc = "sem_granted"
    /\ Cardinality(Holders) = VisionSlots

\* the records of item k in the result list
ResultRecords(k) == {j \in DOMAIN processed_data : processed_data[j] = NameOf(k)}
InRun == orch.pc \notin {"idle", "crashed", "raised"}

\* the batches are consecutive slices of at most batch_size items; the
\* items before the current batch are done, those after it not created;
\* and no item has more than one record in the two lists together
BatchesCoverInput ==
    InRun =>
        /\ orch.i % BatchSizeOf(orch.run) = 0
        /\ Cardinality(BatchOf(orch)) <= BatchSizeOf(orch.run)
        /\ orch.total > 0 => BatchOf(orch) # {}
        /\ \A k \in DOMAIN task :
              /\ k <= orch.i => task[k].pc = "done"
              /\ (orch.pc = "start" \/ k > Min(orch.i + BatchSizeOf(orch.run), orch.total))
                    => task[k].pc = "none"
              /\ Cardinality(ResultRecords(k)) + Cardinality(ErrorRecords(k)) <= 1
              /\ Failed(k) => (Cardinality(ErrorRecords(k)) = 1 /\ ResultRecords(k) = {})
        /\ orch.pc = "done" =>
              \A k \in DOMAIN task :
                 /\ task[k].pc = "done"
                 /\ Cardinality(ResultRecords(k)) + Cardinality(ErrorRecords(k)) = 1

\* a step of the run creates the coroutine of an item only if the item has
\* none yet, and leaves alone an item that is done
NeverRedispatched ==
    (orch'.pc \notin {"crashed", "raised"}) =>
        \A k \in DOMAIN task :
           /\ (task'[k].pc = "created" /\ task[k].pc # "created") => task[k].pc = "none"
           /\ task[k].pc = "done" => task'[k] = task[k]

\* C21, under SpecOrch: the input is processed in consecutive batches of at
\* most batch_size items, without overlap and without gap, in input order,
\* and every item is processed exactly once: an item that is done, failed
\* or not, is never dispatched again in the run, and a failed item keeps
\* its one record in the error list.
C21_ProcessedOnceInBatches == []BatchesCoverInput /\ [][NeverRedispatched]_vars

\* a finished run of a full batch and a shorter last one, with an item of
\* the first batch failed and in the error list
C21_Witness ==
    /\ orch.pc = "done"
    /\ orch.i > 0
    /\ Cardinality(BatchOf(orch)) < BatchSizeOf(orch.run)
    /\ \E k \in 1..BatchSizeOf(orch.run) : Failed(k) /\ Cardinality(ErrorRecords(k)) = 1

\* after a failed save the run has ended with the exception
SaveFailureIsFatal ==
    orch.save_failed =>
        /\ orch.pc = "raised"
        /\ \A k \in DOMAIN task : task[k].pc = "none"

\* C22, under SpecOrch: when save_processed_data has raised, the run has
\* ended with the exception, in the main run and in the retry run: no step
\* follows, so no item of a later batch is dispatched.
C22_FailedCheckpointIsFatal == []SaveFailureIsFatal /\ [][~orch.save_failed]_vars

\* json.dump raised in the write after the second batch, the file emptied,
\* with a batch still to come
C22_Witness ==
    /\ orch.pc = "raised"
    /\ orch.save_failed
    /\ orch.writes = 1
    /\ orch.i > 0
    /\ orch.i + BatchSizeOf(orch.run) < orch.total
    /\ output_file.state = "truncated"

\* C23, under SpecOrch: the calls admitted in one 60-second window are at
\* most RateThreshold + 1 (the call that takes the count over the threshold
\* is the last of its window), also when several tasks sleep until the
\* window ends and wake together.
C23_WindowBound == InRun => orch.admitted <= RateThreshold + 1

\* C27, under SpecOrch: when the results of a batch are collected,
\* processed_count + failed_count is the number of items dispatched so far,
\* processed_count the length of the result list, and every dispatched
\* item has exactly one record, in the result list or in the error list.
C27_EveryItemAccounted ==
    (InRun /\ orch.pc \notin {"start", "gather"}) =>
        /\ orch.processed_count + orch.failed_count = Collected(orch)
        /\ orch.processed_count = Len(processed_data)
        /\ \A k \in 1..Collected(orch) :
              Cardinality(ResultRecords(k)) + Cardinality(ErrorRecords(k)) = 1

\* between two batches, the first with a successful and a failed item
C27_Witness ==
    /\ orch.pc = "pause"
    /\ orch.processed_count > 0
    /\ orch.failed_count > 0
    /\ \E k \in BatchOf(orch) : ResultRecords(k) # {}
    /\ \E k \in BatchOf(orch) : Cardinality(ErrorRecords(k)) = 1

(***************************************************************************)
(* Claims about the embedding runs, under SpecRun.                         *)
(***************************************************************************)
RunExited == embed_run.pc \in {"returned", "raised"}
StoredCount == Cardinality({k \in embed_run.received : Truthy(stored[k])})

\* C18, under SpecRun: when a run is interrupted, by a kill or by an
\* exception in its loop, after some items have received their embeddings,
\* these items are stored with their embeddings (and so are not requested
\* again by the next run, which takes the items stored without one).
C18_PartialProgressPersisted ==
    embed_run.pc \in {"killed", "raised"} => StoredCount = embed_run.completed

\* C11, under SpecRun: when main has exited, by its return or by an
\* exception, no worker process is running and no temporary directory is
\* left.
C11_ResourcesReleased ==
    RunExited => (~temp_dir /\ process # "running")

C12_SaveIsIdempotent ==
    (orch.writes >= 2 /\ orch.pc \in {"save_errors", "done"}
        /\ processed_data = orch.first_output.processed_icons) =>
        output_file = orch.first_output

=============================================================================
